---- MODULE Spec2Model ----
(***************************************************************************)
(* A model of app.py, the Streamlit "AI Document Simplifier".              *)
(*                                                                         *)
(* Strings.  A character is a one-character string.  A short string (an   *)
(* API key, an exception message) is a sequence of characters.  A          *)
(* document text is run-length encoded, a sequence of <<char, count>> runs *)
(* in canonical form (no empty run, no two adjacent runs of one char), so  *)
(* that texts around the 1,000,000 character ceiling stay small values.    *)
(*                                                                         *)
(* Optional values.  Python's None is <<>> and a present value v is <<v>>. *)
(***************************************************************************)
EXTENDS Integers, Sequences, FiniteSets, TLC

VARIABLES
    session,    \* st.session_state: summary, key_points, extracted_text, ...
    cache,      \* the entries of the two st.cache_data memo caches
    now,        \* the clock the caches' ttl is measured on, in seconds
    run,        \* what the latest script run did (calls, banners, display)
    computed,   \* history: latest provider-computed result per call, since the last clear
    runs,       \* number of Process actions so far
    ticks,      \* number of clock advances so far
    fin,        \* the arguments of a function applied on its own
    fout        \* what it returned

vars == <<session, cache, now, run, computed, runs, ticks, fin, fout>>

\* ------------------------------------------------------------------ bounds

MaxRuns == 2
MaxTicks == 1
MaxDocPages == 12

\* ------------------------------------------------------- program constants

max_pages == 10
CharCeiling == 1000000
ttl == 3600
PromptChars == 15000

\* ------------------------------------------------------------------ options

None == <<>>

Some(v) == <<v>>

\* ------------------------------------------------------------------ strings

Whitespace == {" ", "\n", "\t", "\r"}

UpperCase == <<"A", "B", "C", "D", "E", "F", "G", "H", "I", "J", "K", "L", "M",
              "N", "O", "P", "Q", "R", "S", "T", "U", "V", "W", "X", "Y", "Z">>

LowerCase == <<"a", "b", "c", "d", "e", "f", "g", "h", "i", "j", "k", "l", "m",
              "n", "o", "p", "q", "r", "s", "t", "u", "v", "w", "x", "y", "z">>

\* str.lower() of one character
Lower(c) ==
    IF \E i \in 1..Len(UpperCase) : UpperCase[i] = c
    THEN LowerCase[CHOOSE i \in 1..Len(UpperCase) : UpperCase[i] = c]
    ELSE c

LowerStr(s) == [i \in 1..Len(s) |-> Lower(s[i])]

\* Python's `sub in s`
Contains(sub, s) ==
    \E i \in 0..(Len(s) - Len(sub)) : SubSeq(s, i + 1, i + Len(sub)) = sub

\* str.strip() of a short string leaves nothing
\* `not s`: the test without the strip
BlankStrNoStrip(s) == s = <<>>

BlankStr(s) == \A i \in 1..Len(s) : s[i] \in Whitespace

\* text + other, on run-length encoded texts
Concat(a, b) ==
    IF a = <<>> THEN b
    ELSE IF b = <<>> THEN a
    ELSE IF a[Len(a)][1] = b[1][1]
         THEN SubSeq(a, 1, Len(a) - 1)
              \o << <<b[1][1], a[Len(a)][2] + b[1][2]>> >>
              \o SubSeq(b, 2, Len(b))
         ELSE a \o b

RECURSIVE TextLen(_)
\* len(text)
TextLen(t) == IF t = <<>> THEN 0 ELSE t[1][2] + TextLen(Tail(t))

\* a blank test that forgets strip(): `not text`
BlankTextNoStrip(t) == t = <<>>

\* not text.strip()
BlankText(t) == \A i \in 1..Len(t) : t[i][1] \in Whitespace

RECURSIVE Take(_, _)
\* text[:n]
Take(t, n) ==
    IF t = <<>> \/ n <= 0 THEN <<>>
    ELSE IF t[1][2] >= n THEN << <<t[1][1], n>> >>
    ELSE <<t[1]>> \o Take(Tail(t), n - t[1][2])

\* the characters that occur in a text
CharsOf(t) == {t[i][1] : i \in 1..Len(t)}

\* ------------------------------------------------------- extract_text_from_pdf

NoExtractableText == "The PDF appears to be empty or contains only images."
TextTooLarge == "The extracted text is too large."
CorruptInput == "The file appears to be corrupted or not a valid PDF."
PdfTooLarge == "The PDF is too large to process."
UnexpectedPdfError == "Unexpected error reading PDF"

Min(a, b) == IF a < b THEN a ELSE b

\* a page limit that is one page too long
PagesToProcessOffByOne(total_pages, maxp) == Min(total_pages, maxp + 1)

\* min(total_pages, max_pages)
PagesToProcess(total_pages, maxp) == Min(total_pages, maxp)

RECURSIVE PageLoopStopsAtFailure(_, _, _, _, _)
\* a loop that leaves at the first page it cannot read (break for continue)
PageLoopStopsAtFailure(pages, page_num, stop, text, warnings) ==
    IF page_num >= stop THEN [text |-> text, warnings |-> warnings]
    ELSE IF pages[page_num + 1].ok
         THEN PageLoopStopsAtFailure(pages, page_num + 1, stop,
                  Concat(Concat(text, pages[page_num + 1].text), << <<"\n", 1>> >>),
                  warnings)
         ELSE [text |-> text,
               warnings |-> Append(warnings,
                                   [kind |-> "PageUnreadable", n |-> page_num + 1])]

RECURSIVE PageLoop(_, _, _, _, _)
\* the loop over range(pages_to_process): page_num is 0-based as in the code
PageLoop(pages, page_num, stop, text, warnings) ==
    IF page_num >= stop THEN [text |-> text, warnings |-> warnings]
    ELSE LET page == pages[page_num + 1] IN
         IF page.ok
         THEN PageLoop(pages, page_num + 1, stop,
                       Concat(Concat(text, page.text), << <<"\n", 1>> >>), warnings)
         ELSE PageLoop(pages, page_num + 1, stop, text,
                       Append(warnings, [kind |-> "PageUnreadable", n |-> page_num + 1]))

\* a ceiling that is one digit too long
ExceedsCeilingLoose(text) == TextLen(text) > 10 * CharCeiling

\* len(text) > 1_000_000
ExceedsCeiling(text) == TextLen(text) > CharCeiling

\* checks that hand the text back beside the TextTooLarge error
CheckedKeepsText(total_pages, loop) ==
    IF BlankText(loop.text)
    THEN [text |-> None, error |-> Some(NoExtractableText),
          total_pages |-> total_pages, warnings |-> loop.warnings]
    ELSE [text |-> Some(loop.text),
          error |-> IF ExceedsCeiling(loop.text) THEN Some(TextTooLarge) ELSE None,
          total_pages |-> total_pages, warnings |-> loop.warnings]

\* the checks on the concatenated text, and the return
Checked(total_pages, loop) ==
    IF BlankText(loop.text)
    THEN [text |-> None, error |-> Some(NoExtractableText),
          total_pages |-> total_pages, warnings |-> loop.warnings]
    ELSE IF ExceedsCeiling(loop.text)
    THEN [text |-> None, error |-> Some(TextTooLarge),
          total_pages |-> total_pages, warnings |-> loop.warnings]
    ELSE [text |-> Some(loop.text), error |-> None,
          total_pages |-> total_pages, warnings |-> loop.warnings]

\* the st.warning of a document longer than max_pages
PageCountAdvisory(total_pages, maxp) ==
    IF total_pages > maxp
    THEN << [kind |-> "TooManyPages", n |-> total_pages] >>
    ELSE <<>>

\* the tuple (text, error, total_pages), with the st.warning advisories emitted
\* on the way
extract_text_from_pdf(pdf_file, maxp) ==
    IF pdf_file.open = "FileDataError"
    THEN [text |-> None, error |-> Some(CorruptInput), total_pages |-> 0,
          warnings |-> <<>>]
    ELSE IF pdf_file.open = "MemoryError"
    THEN [text |-> None, error |-> Some(PdfTooLarge), total_pages |-> 0,
          warnings |-> <<>>]
    ELSE IF pdf_file.open = "Exception"
    THEN [text |-> None, error |-> Some(UnexpectedPdfError), total_pages |-> 0,
          warnings |-> <<>>]
    ELSE
    Checked(Len(pdf_file.pages),
            PageLoop(pdf_file.pages, 0, PagesToProcess(Len(pdf_file.pages), maxp),
                     <<>>, PageCountAdvisory(Len(pdf_file.pages), maxp)))

\* ------------------------------------------------------------- the documents

\* one distinct letter per page index, so a page's text is recognisable
Marker == <<"a", "b", "c", "d", "e", "f", "g", "h", "i", "j", "k", "l", "m",
            "n", "o", "p">>

Bodies == {"letters", "blank", "huge", "edge"}

\* what page.get_text() returns for page i (1-based) of a document of a kind:
\* "edge" pages hold 499,999 characters, so two of them, each followed by the
\* newline the loop adds, make exactly the ceiling; "huge" pages hold 500,000
PageText(body, i) ==
    CASE body = "letters" -> << <<Marker[i], 3>> >>
      [] body = "blank"   -> << <<" ", 2>> >>
      [] body = "huge"    -> << <<Marker[i], 500000>> >>
      [] body = "edge"    -> << <<Marker[i], 499999>> >>

\* an uploaded file that opens as a PDF of n pages; page `bad` (0: none) raises
\* in get_text
Doc(body, n, bad) ==
    [open  |-> "ok",
     bytes |-> <<body, n, bad>>,
     pages |-> [i \in 1..n |-> [ok |-> i # bad, text |-> PageText(body, i)]]]

\* an uploaded file fitz.open fails on with the given exception
Broken(exc) == [open |-> exc, bytes |-> <<exc, 0, 0>>, pages |-> <<>>]

BrokenFiles == {Broken(e) : e \in {"FileDataError", "MemoryError", "Exception"}}

AllFiles ==
    BrokenFiles \cup
    {Doc(b, n, bad) : b \in Bodies, n \in 1..MaxDocPages, bad \in 0..MaxDocPages}

\* ------------------------------------------------ get_summary, get_key_points

\* the error strings the two functions return, by the spec's taxonomy
AiError(kind, about, msg) == [kind |-> kind, about |-> about, msg |-> msg]

EmptyResponse == AiError("EmptyResponse", "", <<>>)
ContentBlocked == AiError("ContentBlocked", "", <<>>)
GenerationStopped == AiError("GenerationStopped", "", <<>>)
InvalidCredential == AiError("InvalidCredential", "", <<>>)
QuotaExceeded == AiError("QuotaExceeded", "", <<>>)
NetworkError == AiError("NetworkError", "", <<>>)

\* f"Error generating {about}: {str(e)}. Please try again or contact support."
UnknownProviderError(about, e) == AiError("UnknownProviderError", about, e)

\* the keywords of the `except Exception` branch, as strings of characters
KwApiKey == <<"a", "p", "i", " ", "k", "e", "y">>
KwAuthentication == <<"a", "u", "t", "h", "e", "n", "t", "i", "c", "a", "t", "i", "o", "n">>
Kw401 == <<"4", "0", "1">>
KwQuota == <<"q", "u", "o", "t", "a">>
KwRateLimit == <<"r", "a", "t", "e", " ", "l", "i", "m", "i", "t">>
Kw429 == <<"4", "2", "9">>
KwNetwork == <<"n", "e", "t", "w", "o", "r", "k">>
KwConnection == <<"c", "o", "n", "n", "e", "c", "t", "i", "o", "n">>

\* a classifier that tests the quota family before the credential family
ClassifyExceptionQuotaFirst(about, e) ==
    IF Contains(KwQuota, LowerStr(e)) \/ Contains(KwRateLimit, LowerStr(e))
       \/ Contains(Kw429, LowerStr(e))
    THEN QuotaExceeded
    ELSE IF Contains(KwApiKey, LowerStr(e)) \/ Contains(KwAuthentication, LowerStr(e))
            \/ Contains(Kw401, LowerStr(e))
    THEN InvalidCredential
    ELSE IF Contains(KwNetwork, LowerStr(e)) \/ Contains(KwConnection, LowerStr(e))
    THEN NetworkError
    ELSE UnknownProviderError(about, e)

\* the `except Exception as e` branch: e is str(e)
ClassifyException(about, e) ==
    LET error_msg == LowerStr(e) IN
    IF Contains(KwApiKey, error_msg) \/ Contains(KwAuthentication, error_msg)
       \/ Contains(Kw401, error_msg)
    THEN InvalidCredential
    ELSE IF Contains(KwQuota, error_msg) \/ Contains(KwRateLimit, error_msg)
            \/ Contains(Kw429, error_msg)
    THEN QuotaExceeded
    ELSE IF Contains(KwNetwork, error_msg) \/ Contains(KwConnection, error_msg)
    THEN NetworkError
    ELSE UnknownProviderError(about, e)

\* the prompt built from the instruction template and text[:15000]
Prompt(instr, text) == [instr |-> instr, text |-> Take(text, PromptChars)]

\* the tuple (text, error) a function body returns
Result(text, error) == [text |-> text, error |-> error]

\* the text the provider answers a prompt with
Generated(prompt) == [answer_to |-> prompt, empty |-> FALSE]

\* response.text for an outcome of generate_content that raises nothing:
\* None stands for no response or no text
Response(outcome, prompt) ==
    CASE outcome.kind = "text"  -> Some(Generated(prompt))
      [] outcome.kind = "empty" -> Some([answer_to |-> prompt, empty |-> TRUE])
      [] OTHER -> None

\* a check that takes any response for an answer
EmptyAnswerNever(text) == FALSE

\* `not response or not response.text`
EmptyAnswer(text) == text = None \/ text[1].empty

\* The body of get_summary / get_key_points for one outcome of generate_content:
\*   "text"       a response with non-empty text
\*   "empty"      a response with empty text
\*   "missing"    no response, or a response without text
\*   "blocked"    BlockedPromptException(msg)
\*   "stopped"    StopCandidateException(msg)
\*   "exception"  any other Exception(msg)
\*   "escape"     an Exception(msg) that leaves the function (raised outside
\*                its handlers, or by the caching wrapper)
Body(instr, about, text, api_key, outcome) ==
    IF outcome.kind = "escape"
    THEN [raised |-> TRUE, exc |-> outcome.msg, ret |-> Result(None, None),
          did |-> Some(outcome)]
    ELSE [raised |-> FALSE, exc |-> <<>>, did |-> Some(outcome), ret |->
        CASE outcome.kind \in {"text", "empty", "missing"} ->
                IF EmptyAnswer(Response(outcome, Prompt(instr, text)))
                THEN Result(None, Some(EmptyResponse))
                ELSE Result(Response(outcome, Prompt(instr, text)), None)
          [] outcome.kind = "blocked" -> Result(None, Some(ContentBlocked))
          [] outcome.kind = "stopped" -> Result(None, Some(GenerationStopped))
          [] OTHER -> Result(None, Some(ClassifyException(about, outcome.msg)))]

get_summary(text, api_key, outcome) ==
    Body("3-sentence summary", "summary", text, api_key, outcome)

get_key_points(text, api_key, outcome) ==
    Body("5 key points", "key points", text, api_key, outcome)

\* ------------------------------------------------------------ st.cache_data

\* an entry is served while less than ttl seconds old
Fresh(entry, t) == t - entry.at < ttl

\* a lookup keyed by the function and the credential alone
LookupIgnoringText(cch, fn, text, api_key, t) ==
    {e \in cch : e.fn = fn /\ e.key = api_key /\ Fresh(e, t)}

\* the entries a call of fn(text, api_key) at time t is served from
Lookup(cch, fn, text, api_key, t) ==
    {e \in cch : e.fn = fn /\ e.text = text /\ e.key = api_key /\ Fresh(e, t)}

\* the cache after fn(text, api_key) returned value at time t
Store(cch, fn, text, api_key, value, t) ==
    {e \in cch : ~(e.fn = fn /\ e.text = text /\ e.key = api_key)}
    \cup {[fn |-> fn, text |-> text, key |-> api_key, value |-> value, at |-> t]}

\* a call of the decorated function fn at time t: the record of the call and
\* the cache after it
\* a call served from the cache: the function body does not run
Hit(fn, text, api_key, cch, t, hit) ==
    [call |-> [fn |-> fn, text |-> text, key |-> api_key, at |-> t,
               provider |-> FALSE, raised |-> FALSE, exc |-> <<>>, did |-> None,
               ret |-> (CHOOSE e \in hit : TRUE).value],
     cache |-> cch]

\* a wrapper that keeps successful results only
MissSuccessOnly(fn, text, api_key, cch, t, b) ==
    [call |-> [fn |-> fn, text |-> text, key |-> api_key, at |-> t,
               provider |-> TRUE, raised |-> b.raised, exc |-> b.exc, did |-> b.did,
               ret |-> b.ret],
     cache |-> IF b.raised \/ b.ret.error # None THEN cch
               ELSE Store(cch, fn, text, api_key, b.ret, t)]

\* a call that ran the function body, with what the body did: a returned
\* value is stored, a raised exception is not
Miss(fn, text, api_key, cch, t, b) ==
    [call |-> [fn |-> fn, text |-> text, key |-> api_key, at |-> t,
               provider |-> TRUE, raised |-> b.raised, exc |-> b.exc, did |-> b.did,
               ret |-> b.ret],
     cache |-> IF b.raised THEN cch ELSE Store(cch, fn, text, api_key, b.ret, t)]

CachedCall(fn, text, api_key, outcome, cch, t) ==
    IF Lookup(cch, fn, text, api_key, t) # {}
    THEN Hit(fn, text, api_key, cch, t, Lookup(cch, fn, text, api_key, t))
    ELSE Miss(fn, text, api_key, cch, t,
              IF fn = "get_summary"
              THEN get_summary(text, api_key, outcome)
              ELSE get_key_points(text, api_key, outcome))

\* a reset that forgets st.cache_data.clear()
ClearedCacheForgotten(cch) == cch

\* st.cache_data.clear()
ClearedCache(cch) == {}

\* ------------------------------------------------------------------- main

\* hashlib.sha256(file_bytes).hexdigest()
get_file_hash(uploaded_file) == [sha256 |-> uploaded_file.bytes]

NoDisplay == [summary |-> None, key_points |-> None, text |-> None]

BlankRun ==
    [kind |-> "init", file |-> None, key |-> <<>>, banner |-> None,
     extract |-> None, calls |-> <<>>, events |-> <<>>, display |-> NoDisplay,
     balloons |-> FALSE]

\* `if error:` on an optional string
Truthy(error) ==
    error # None /\ ~(error[1].kind = "Raised" /\ error[1].msg = <<>>)

\* (value, error) as main holds them after its try/except around a call
AfterCall(c) ==
    IF c.raised THEN Result(None, Some(AiError("Raised", "", c.exc))) ELSE c.ret

\* the events of one call, in order
CallEvents(c) ==
    <<c.fn \o ":call">>
    \o (IF c.provider THEN <<c.fn \o ":generate_content">> ELSE <<>>)
    \o <<IF c.raised THEN c.fn \o ":raise" ELSE c.fn \o ":return">>

\* `if error: ... else: st.session_state.<field> = value` after a call cc
Shown(cc) ==
    [call |-> cc.call, cache |-> cc.cache,
     shown_error |-> Truthy(AfterCall(cc.call).error),
     stored |-> IF Truthy(AfterCall(cc.call).error) THEN None
                ELSE AfterCall(cc.call).text]

\* the summary step of main
SummaryStep(text, api_key, outcome, cch, t) ==
    Shown(CachedCall("get_summary", text, api_key, outcome, cch, t))

\* the key-points step of main
KeyPointsStep(text, api_key, outcome, cch, t) ==
    Shown(CachedCall("get_key_points", text, api_key, outcome, cch, t))

\* what the two AI steps did, in their order
BothSteps(s, k) ==
    [calls |-> <<s.call, k.call>>,
     events |-> CallEvents(s.call) \o CallEvents(k.call),
     summary |-> s.stored, key_points |-> k.stored, cache |-> k.cache]

\* a flow that gives up after a failed summary
ThenKeyPointsUnlessFailed(text, api_key, oK, t, s) ==
    IF s.shown_error
    THEN [calls |-> <<s.call>>, events |-> CallEvents(s.call),
          summary |-> s.stored, key_points |-> None, cache |-> s.cache]
    ELSE BothSteps(s, KeyPointsStep(text, api_key, oK, s.cache, t))

\* the key-points step follows the summary step, whatever that one stored
ThenKeyPoints(text, api_key, oK, t, s) ==
    BothSteps(s, KeyPointsStep(text, api_key, oK, s.cache, t))

\* the AI steps of main after a successful extraction
AiSteps(text, api_key, oS, oK, cch, t) ==
    ThenKeyPoints(text, api_key, oK, t, SummaryStep(text, api_key, oS, cch, t))

\* a script run of Process Document before any step
ProcessRun(uploaded_file, api_key) ==
    [BlankRun EXCEPT !.kind = "process", !.file = uploaded_file, !.key = api_key]

\* the two st.error messages of the input validation (MissingInput)
MissingFile == "Please upload a PDF file first!"
MissingKey == "Please enter a valid Gemini API key in the sidebar!"

\* an abort that also drops the previous results
AbortedResets(s, cch, r, banner) ==
    [session |-> [s EXCEPT !.summary = None, !.key_points = None],
     cache |-> cch, run |-> [r EXCEPT !.banner = banner]]

\* a run that ends with st.error(banner) and return: nothing is assigned
Aborted(s, cch, r, banner) ==
    [session |-> s, cache |-> cch, run |-> [r EXCEPT !.banner = banner]]

\* `if st.session_state.summary and st.session_state.key_points:`
Celebrate(s2, cch, r) ==
    [session |-> IF s2.summary # None /\ s2.key_points # None
                 THEN [s2 EXCEPT !.processing_complete = TRUE] ELSE s2,
     cache |-> cch,
     run |-> [r EXCEPT !.balloons = s2.summary # None /\ s2.key_points # None]]

\* main from the assignment of extracted_text to its end, with the AI steps ai
Completed(s, r, text, current_file_hash, ai) ==
    Celebrate([s EXCEPT !.extracted_text = Some(text),
                        !.processed_file_hash = Some(current_file_hash),
                        !.summary = ai.summary,
                        !.key_points = ai.key_points],
              ai.cache,
              [r EXCEPT !.calls = ai.calls,
                        !.events = r.events \o ai.events,
                        !.display = [summary |-> ai.summary,
                                     key_points |-> ai.key_points,
                                     text |-> Some(text)]])

\* main after extract_text_from_pdf returned ex
Extracted(uploaded_file, api_key, oS, oK, s, cch, t, r, ex) ==
    IF ex.error # None
    THEN Aborted(s, cch, r, ex.error)
    ELSE IF ex.text = None \/ ex.text = Some(<<>>)
    THEN Aborted(s, cch, r, Some("CouldNotExtract"))
    ELSE Completed(s, r, ex.text[1], get_file_hash(uploaded_file),
                   AiSteps(ex.text[1], api_key, oS, oK, cch, t))

\* `if process_button:` of main; uploaded_file is None or Some(file)
ProcessDocument(uploaded_file, api_key, oS, oK, s, cch, t) ==
    IF uploaded_file = None
    THEN Aborted(s, cch, ProcessRun(uploaded_file, api_key), Some(MissingFile))
    ELSE IF BlankStr(api_key)
    THEN Aborted(s, cch, ProcessRun(uploaded_file, api_key), Some(MissingKey))
    ELSE Extracted(uploaded_file[1], api_key, oS, oK, s, cch, t,
                   [ProcessRun(uploaded_file, api_key) EXCEPT
                       !.extract = Some(extract_text_from_pdf(uploaded_file[1], max_pages)),
                       !.events = <<"extract">>],
                   extract_text_from_pdf(uploaded_file[1], max_pages))

\* the `elif` of main: a script run in which Process was not pressed
ShowPrevious(s) ==
    IF s.summary # None \/ s.key_points # None \/ s.extracted_text # None
    THEN [summary |-> s.summary, key_points |-> s.key_points, text |-> s.extracted_text]
    ELSE NoDisplay

\* the session after the Clear Cache button's assignments
ClearedSession(s) ==
    [s EXCEPT !.summary = None, !.key_points = None, !.extracted_text = None,
              !.processed_file_hash = None]

\* ------------------------------------------------------------ the inputs

\* a whitespace-only key and a key the provider may accept or refuse
Keys == { <<>>, <<" ">>, <<"k", "1">> }

MsgQuota == <<"Q", "u", "o", "t", "a">>
MsgCrash == <<"c", "r", "a", "s", "h">>

Outcome(kind, msg) == [kind |-> kind, msg |-> msg]

\* what generate_content may do in the summary call
SummaryOutcomes ==
    {Outcome("text", <<>>), Outcome("empty", <<>>),
     Outcome("exception", MsgQuota), Outcome("escape", MsgCrash)}

\* what generate_content may do in the key-points call
KeyPointsOutcomes ==
    {Outcome("text", <<>>), Outcome("missing", <<>>),
     Outcome("exception", MsgQuota), Outcome("escape", MsgCrash)}

\* the AI steps are reached: the outcomes of generate_content matter
ReachesAi(f, k) ==
    /\ f # None
    /\ ~BlankStr(k)
    /\ extract_text_from_pdf(f[1], max_pages).error = None

Files ==
    {Broken("FileDataError"), Doc("blank", 2, 0), Doc("letters", 1, 1),
     Doc("letters", 2, 0), Doc("edge", 2, 0), Doc("huge", 2, 0)}

\* what the file uploader holds when the script runs: no file, or a file
Uploads == {None} \cup {Some(f) : f \in Files}

\* -------------------------------------------------------------- history

RECURSIVE Record(_, _)
\* the latest provider-computed results, after the calls of one run
Record(hist, calls) ==
    IF calls = <<>> THEN hist
    ELSE LET c == calls[1] IN
         Record(IF c.provider /\ ~c.raised
                THEN {e \in hist : ~(e.fn = c.fn /\ e.text = c.text /\ e.key = c.key)}
                     \cup {[fn |-> c.fn, text |-> c.text, key |-> c.key,
                            value |-> c.ret, at |-> c.at]}
                ELSE hist,
                Tail(calls))

\* ------------------------------------------------------------- initial state

InitSession ==
    [summary |-> None, key_points |-> None, extracted_text |-> None,
     processed_file_hash |-> None, processing_complete |-> FALSE]

InitApp ==
    /\ session = InitSession
    /\ cache = {}
    /\ now = 0
    /\ run = BlankRun
    /\ computed = {}
    /\ runs = 0
    /\ ticks = 0

\* ------------------------------------------------------------- the actions

Init ==
    /\ InitApp
    /\ fin = None
    /\ fout = None

\* the state after a script run p
Becomes(p) ==
    /\ session' = p.session
    /\ cache' = p.cache
    /\ run' = p.run
    /\ computed' = Record(computed, p.run.calls)

\* a script run with process_button set. The button is drawn disabled when
\* there is no file or no key, and the handler tests both again
Process ==
    /\ runs < MaxRuns
    /\ \E f \in Uploads, k \in Keys, oS \in SummaryOutcomes, oK \in KeyPointsOutcomes :
         /\ ReachesAi(f, k) \/ (oS.kind = "text" /\ oK.kind = "text")
         /\ Becomes(ProcessDocument(f, k, oS, oK, session, cache, now))
    /\ runs' = runs + 1
    /\ UNCHANGED <<now, ticks, fin, fout>>

\* the user presses Clear Cache; st.rerun() then runs the script with no button
ClearCache ==
    /\ cache' = ClearedCache(cache)
    /\ session' = ClearedSession(session)
    /\ run' = [BlankRun EXCEPT !.kind = "clear",
                               !.display = ShowPrevious(ClearedSession(session))]
    /\ computed' = {}
    /\ UNCHANGED <<now, runs, ticks, fin, fout>>

\* any other script run (a widget changed, the page was revisited)
Rerun ==
    /\ run' = [BlankRun EXCEPT !.kind = "rerun", !.display = ShowPrevious(session)]
    /\ UNCHANGED <<session, cache, now, computed, runs, ticks, fin, fout>>

\* time passes between script runs
Tick ==
    /\ ticks < MaxTicks
    /\ \E d \in {ttl - 1, ttl} : now' = now + d
    /\ ticks' = ticks + 1
    /\ UNCHANGED <<session, cache, run, computed, runs, fin, fout>>

Next == Process \/ ClearCache \/ Rerun \/ Tick

Spec == Init /\ [][Next]_vars

\* ------------------------------------ the error classification on its own

Words ==
    {
     <<"Q", "u", "o", "t", "a">>,
     <<"Q", "U", "O", "T", "A", " ", "e", "x", "c", "e", "e", "d", "e", "d">>,
     <<"A", "P", "I", " ", "k", "e", "y">>,
     <<"a", "p", "i", " ", "k", "e", "y">>,
     <<"A", "u", "t", "h", "e", "n", "t", "i", "c", "a", "t", "i", "o", "n">>,
     <<"4", "0", "1">>,
     <<"4", "2", "9">>,
     <<"R", "a", "t", "e", " ", "l", "i", "m", "i", "t">>,
     <<"n", "e", "t", "w", "o", "r", "k">>,
     <<"C", "o", "n", "n", "e", "c", "t", "i", "o", "n">>,
     <<"b", "o", "o", "m">>,
     <<"O", "o", "p", "s", "!">>
    }

\* str(e): one word, or two separated by a blank
Messages == Words \cup {a \o <<" ">> \o b : a \in Words, b \in Words}

Failures ==
    {Outcome(k, m) : k \in {"exception", "blocked", "stopped"}, m \in Messages}
    \cup {Outcome("missing", <<>>), Outcome("empty", <<>>)}

InitClassify ==
    /\ InitApp
    /\ fin \in {[fn |-> f, outcome |-> o, done |-> FALSE] :
                   f \in {"get_summary", "get_key_points"}, o \in Failures}
    /\ fout = None

Classify ==
    /\ ~fin.done
    /\ fin' = [fin EXCEPT !.done = TRUE]
    /\ fout' = Some(IF fin.fn = "get_summary"
                    THEN get_summary(Doc("letters", 2, 0).pages[1].text, <<"k", "1">>,
                                     fin.outcome)
                    ELSE get_key_points(Doc("letters", 2, 0).pages[1].text, <<"k", "1">>,
                                        fin.outcome))
    /\ UNCHANGED <<session, cache, now, run, computed, runs, ticks>>

NextClassify == Classify

SpecClassify == InitClassify /\ [][NextClassify]_vars

\* --------------------------------------- extract_text_from_pdf on its own

InitExtract ==
    /\ InitApp
    /\ fin \in {[file |-> f, done |-> FALSE] : f \in AllFiles}
    /\ fout = None

Extract ==
    /\ ~fin.done
    /\ fin' = [fin EXCEPT !.done = TRUE]
    /\ fout' = Some(extract_text_from_pdf(fin.file, max_pages))
    /\ UNCHANGED <<session, cache, now, run, computed, runs, ticks>>

NextExtract == Extract

SpecExtract == InitExtract /\ [][NextExtract]_vars

\* ================================================================ properties

\* the pages of a file that extraction looks at
Processed(f) == 1..Min(Len(f.pages), max_pages)

RECURSIVE JoinFirst(_, _)
\* the text of the pages 1..n that can be read, each followed by a newline
JoinFirst(pages, n) ==
    IF n = 0 THEN <<>>
    ELSE Concat(JoinFirst(pages, n - 1),
                IF pages[n].ok THEN Concat(pages[n].text, << <<"\n", 1>> >>) ELSE <<>>)

RECURSIVE JoinAll(_, _)
\* the text of all the pages 1..n, each followed by a newline
JoinAll(pages, n) ==
    IF n = 0 THEN <<>>
    ELSE Concat(JoinAll(pages, n - 1), Concat(pages[n].text, << <<"\n", 1>> >>))

RECURSIVE CharsFirst(_, _)
\* the number of characters of JoinFirst(pages, n)
CharsFirst(pages, n) ==
    IF n = 0 THEN 0
    ELSE CharsFirst(pages, n - 1)
         + (IF pages[n].ok THEN TextLen(pages[n].text) + 1 ELSE 0)

\* every page extraction looks at is unreadable or holds only whitespace
NothingToRead(f) ==
    \A i \in Processed(f) :
        ~f.pages[i].ok \/ \A j \in 1..Len(f.pages[i].text) : f.pages[i].text[j][1] \in Whitespace

\* the latest script run was a Process run that called extract_text_from_pdf
ProcessExtracted == run.kind = "process" /\ run.extract # None

\* C2: a document whose concatenated page text is empty or only whitespace
\* makes extract_text_from_pdf return (None, NoExtractableText), and the
\* Process run that called it calls neither get_summary nor get_key_points.
C2_BlankTextNoAiCall ==
    (ProcessExtracted /\ run.file[1].open = "ok" /\ NothingToRead(run.file[1]))
    => /\ run.extract[1].text = None
       /\ run.extract[1].error = Some(NoExtractableText)
       /\ run.calls = <<>>
       /\ run.events = <<"extract">>

\* a Process run on the two-page whitespace document, after an earlier run
\* that did reach the AI steps
C2_Witness ==
    /\ ProcessExtracted
    /\ run.file = Some(Doc("blank", 2, 0))
    /\ run.banner = Some(NoExtractableText)
    /\ cache # {}

\* extract_text_from_pdf was applied to a document of more than max_pages pages
LongDocument == fin # None /\ fin.done /\ fin.file.open = "ok"
                /\ Len(fin.file.pages) > max_pages

\* the letters of the pages past the page limit
LatePageChars(f) == {Marker[i] : i \in (max_pages + 1)..Len(f.pages)}

\* C3 as stated: for a document of more than max_pages pages the returned text
\* is the concatenation of the first max_pages pages, an advisory is emitted,
\* and no text of a later page is in it.
C3_FirstPagesAlways ==
    LongDocument
    => /\ fout[1].text = Some(JoinAll(fin.file.pages, max_pages))
       /\ \E i \in 1..Len(fout[1].warnings) : fout[1].warnings[i].kind = "TooManyPages"

\* C3 as amended: for a document of more than max_pages pages an advisory is
\* emitted, and a text, when one is returned, is the concatenation in page
\* order of the text of those of the first max_pages pages that could be read,
\* each followed by a newline, with no text of a later page in it.
C3_FirstPagesOnly ==
    LongDocument
    => /\ fout[1].warnings # <<>>
       /\ fout[1].warnings[1] = [kind |-> "TooManyPages", n |-> Len(fin.file.pages)]
       /\ fout[1].total_pages = Len(fin.file.pages)
       /\ fout[1].text # None =>
            /\ fout[1].text[1] = JoinFirst(fin.file.pages, max_pages)
            /\ CharsOf(fout[1].text[1]) \cap LatePageChars(fin.file) = {}

\* a twelve-page document with an unreadable third page was extracted
C3_Witness ==
    /\ LongDocument
    /\ fin.file = Doc("letters", 12, 3)
    /\ fout[1].text # None
    /\ Len(fout[1].warnings) = 2

ProcessStep == runs' = runs + 1

\* the latest script run was a Process run whose extraction returned a text
ProcessSucceeded ==
    ProcessExtracted /\ run.extract[1].error = None /\ run.extract[1].text # None

\* C1: get_summary or get_key_points called with a (text, api_key) pair whose
\* result was computed by the provider less than ttl seconds earlier, with no
\* Clear Cache since, makes no provider call and returns the tuple computed
\* then, an error tuple included.
C1_SecondCallServedFromCache ==
    [][ProcessStep =>
        \A i \in 1..Len(run'.calls) : \A e \in computed :
            LET c == run'.calls[i] IN
            (e.fn = c.fn /\ e.text = c.text /\ e.key = c.key /\ c.at - e.at < ttl)
            => /\ ~c.provider
               /\ ~c.raised
               /\ c.ret = e.value
               /\ \A j \in 1..Len(run'.events) :
                      run'.events[j] # c.fn \o ":generate_content"]_vars

\* both calls of a Process run, ttl - 1 seconds after the results were
\* computed, were served from the cache, and the summary served is an error
C1_Witness ==
    /\ ProcessSucceeded
    /\ now = ttl - 1
    /\ Len(run.calls) = 2
    /\ ~run.calls[1].provider /\ ~run.calls[2].provider
    /\ run.calls[1].ret.error = Some(QuotaExceeded)
    /\ \E e \in computed : e.fn = "get_summary" /\ e.at = 0
                           /\ e.value = run.calls[1].ret

\* the classification of one provider failure was computed
Classified == fin # None /\ fin.done /\ fin.outcome.kind \in {"exception", "blocked", "stopped"}

\* the error the function returned
ClassifiedAs == fout[1].ret.error[1]

\* str(e) contains the keyword, in any letter case
Mentions(kw) == Contains(kw, LowerStr(fin.outcome.msg))

MentionsAnyKeyword ==
    \/ Mentions(KwApiKey) \/ Mentions(KwAuthentication) \/ Mentions(Kw401)
    \/ Mentions(KwQuota) \/ Mentions(KwRateLimit) \/ Mentions(Kw429)
    \/ Mentions(KwNetwork) \/ Mentions(KwConnection)

\* C5 as stated, read for the exceptions that reach the keyword tests: every
\* failure whose message contains "quota" is QuotaExceeded, every one whose
\* message contains "api key" or "authentication" is InvalidCredential, and one
\* that matches no keyword is UnknownProviderError with the original message.
C5_EveryFailureByKeyword ==
    (Classified /\ fin.outcome.kind = "exception")
    => /\ Mentions(KwQuota) => ClassifiedAs = QuotaExceeded
       /\ (Mentions(KwApiKey) \/ Mentions(KwAuthentication))
            => ClassifiedAs = InvalidCredential
       /\ ~MentionsAnyKeyword
            => /\ ClassifiedAs.kind = "UnknownProviderError"
               /\ ClassifiedAs.msg = fin.outcome.msg

\* C5 as amended: a BlockedPromptException or StopCandidateException is
\* classified by its type, whatever its message.  For any other exception:
\* a message containing "api key" or "authentication" is InvalidCredential;
\* one containing "quota" and none of "api key", "authentication", "401" is
\* QuotaExceeded; one containing no keyword is UnknownProviderError carrying
\* the original message.
C5_ClassifiedByTypeThenKeyword ==
    Classified
    => /\ fout[1].raised = FALSE
       /\ fout[1].ret.text = None
       /\ fin.outcome.kind = "blocked" => ClassifiedAs = ContentBlocked
       /\ fin.outcome.kind = "stopped" => ClassifiedAs = GenerationStopped
       /\ fin.outcome.kind = "exception" =>
            /\ (Mentions(KwApiKey) \/ Mentions(KwAuthentication))
                 => ClassifiedAs = InvalidCredential
            /\ (Mentions(KwQuota) /\ ~Mentions(KwApiKey)
                /\ ~Mentions(KwAuthentication) /\ ~Mentions(Kw401))
                 => ClassifiedAs = QuotaExceeded
            /\ ~MentionsAnyKeyword
                 => ClassifiedAs =
                      UnknownProviderError(IF fin.fn = "get_summary" THEN "summary"
                                           ELSE "key points", fin.outcome.msg)

\* an exception whose message names the quota and the API key, in capitals,
\* was classified
C5_Witness ==
    /\ Classified
    /\ fin.outcome.kind = "exception"
    /\ Mentions(KwQuota) /\ Mentions(KwApiKey)
    /\ fin.outcome.msg # LowerStr(fin.outcome.msg)
    /\ ClassifiedAs = InvalidCredential

\* what the session shows of a document
Results(s) == <<s.summary, s.key_points, s.extracted_text, s.processed_file_hash>>

\* C6: a Process run on a file that is not a readable PDF ends with
\* CorruptInput, makes no AI call and leaves the session as it was; the
\* session's summary, key_points, extracted_text and processed_file_hash change
\* only in a Process run whose extraction succeeded, or by Clear Cache.
C6_CorruptInputKeepsSession ==
    [][/\ (ProcessStep /\ run'.file # None /\ run'.file[1].open = "FileDataError"
           /\ ~BlankStr(run'.key))
          => /\ run'.banner = Some(CorruptInput)
             /\ run'.extract[1].text = None
             /\ run'.calls = <<>>
             /\ session' = session
             /\ cache' = cache
       /\ Results(session') # Results(session)
          => \/ run'.kind = "clear"
             \/ /\ ProcessStep
                /\ run'.extract # None
                /\ run'.extract[1].error = None]_vars

\* after a complete run, a Process run on a corrupt file left the results
C6_Witness ==
    /\ run.kind = "process"
    /\ run.file = Some(Broken("FileDataError"))
    /\ run.banner = Some(CorruptInput)
    /\ session.summary # None /\ session.key_points # None
    /\ session.extracted_text # None

\* what main stores for a call: the text, or None after an error or an exception
StoredOf(c) == IF c.raised \/ c.ret.error # None THEN None ELSE c.ret.text

\* the place of an event in the run's events (0: not there)
At(ev) == IF \E i \in 1..Len(run.events) : run.events[i] = ev
          THEN CHOOSE i \in 1..Len(run.events) : run.events[i] = ev
          ELSE 0

\* C7: in a Process run whose extraction succeeded the summary call returns
\* (or raises) before the key-points call is issued, the key-points call is
\* issued whatever the summary call did, and the stored summary is that of the
\* summary call whatever the key-points call did.
C7_SummaryThenKeyPoints ==
    ProcessSucceeded
    => /\ Len(run.calls) = 2
       /\ run.calls[1].fn = "get_summary"
       /\ run.calls[2].fn = "get_key_points"
       /\ run.calls[2].text = run.calls[1].text
       /\ At("get_summary:call") > 0
       /\ At("get_summary:call") < At("get_summary:return") + At("get_summary:raise")
       /\ At("get_summary:return") + At("get_summary:raise") < At("get_key_points:call")
       /\ At("get_key_points:call") < At("get_key_points:return") + At("get_key_points:raise")
       /\ session.summary = StoredOf(run.calls[1])
       /\ session.key_points = StoredOf(run.calls[2])

\* the summary call raised, the key-points call was made and succeeded
C7_Witness ==
    /\ ProcessSucceeded
    /\ run.calls[1].raised
    /\ run.calls[2].provider
    /\ session.summary = None
    /\ session.key_points # None

\* C8: at the end of a Process run whose extraction succeeded the session
\* holds the text and the hash of the document of that run, and its summary
\* and key points are each None or the answer to the prompt built from that
\* text.
C8_SessionHoldsNewDocumentOnly ==
    ProcessSucceeded
    => /\ session.extracted_text = run.extract[1].text
       /\ session.processed_file_hash = Some(get_file_hash(run.file[1]))
       /\ session.summary \in
            {None, Some(Generated(Prompt("3-sentence summary", run.extract[1].text[1])))}
       /\ session.key_points \in
            {None, Some(Generated(Prompt("5 key points", run.extract[1].text[1])))}

\* a complete run on one document, with the results of another document still
\* in the cache
C8_Witness ==
    /\ ProcessSucceeded
    /\ session.summary # None /\ session.key_points # None
    /\ \E e \in cache : e.text # session.extracted_text[1] /\ e.value.text # None
                        /\ Fresh(e, now)

C10_OnlyValidResultsKept ==
    /\ \A e \in cache : e.value.error = None /\ e.value.text # None
                        /\ ~e.value.text[1].empty
    /\ session.summary # None => ~session.summary[1].empty
    /\ session.key_points # None => ~session.key_points[1].empty

\* C10 as amended: only a result with a non-empty text and no error is stored
\* in the session's summary or key_points; an empty or missing response text
\* is returned as the EmptyResponse error; an error result is never stored in
\* the session (the cache keeps every returned tuple, error tuples included,
\* and a cached tuple holds either a non-empty text or an error).
C10_OnlyValidResultsShown ==
    /\ session.summary # None => ~session.summary[1].empty
    /\ session.key_points # None => ~session.key_points[1].empty
    /\ \A e \in cache : /\ (e.value.text = None) # (e.value.error = None)
                        /\ e.value.text # None => ~e.value.text[1].empty
    /\ ProcessSucceeded =>
         \A i \in 1..Len(run.calls) :
            LET c == run.calls[i] IN
            /\ (c.did # None /\ c.did[1].kind \in {"empty", "missing"})
                 => c.ret = Result(None, Some(EmptyResponse))
            /\ (c.raised \/ c.ret.error # None)
                 => /\ IF c.fn = "get_summary" THEN session.summary = None
                       ELSE session.key_points = None
                    /\ IF c.fn = "get_summary" THEN run.display.summary = None
                       ELSE run.display.key_points = None

\* the provider answered the summary call with an empty text and the
\* key-points call with no text; both errors are in the cache, none is shown
C10_Witness ==
    /\ ProcessSucceeded
    /\ run.calls[1].did = Some(Outcome("empty", <<>>))
    /\ run.calls[2].did = Some(Outcome("missing", <<>>))
    /\ session.summary = None /\ session.key_points = None
    /\ \E e \in cache : e.value.error = Some(EmptyResponse)

\* extract_text_from_pdf returned
Returned == fin # None /\ fin.done /\ fout # None /\ "file" \in DOMAIN fin

\* C11: every return of extract_text_from_pdf, whatever the path, holds exactly
\* one of a text and an error: never a text beside an error, never neither,
\* and a returned text is not empty.
C11_TextXorError ==
    Returned
    => /\ (fout[1].text = None) # (fout[1].error = None)
       /\ fout[1].text # None => fout[1].text[1] # <<>>
       /\ fout[1].error # None =>
            fout[1].error[1] \in {NoExtractableText, TextTooLarge, CorruptInput,
                                  PdfTooLarge, UnexpectedPdfError}

\* the function returned from the text-too-large path, after skipping a page
C11_Witness ==
    /\ Returned
    /\ fin.file = Doc("huge", 3, 1)
    /\ fout[1].text = None
    /\ fout[1].error = Some(TextTooLarge)

\* the page of the file that raises in get_text, when extraction gets to it
FailingPage(f) == {i \in Processed(f) : ~f.pages[i].ok}

\* the warnings that report an unreadable page
PageWarnings(w) == {i \in 1..Len(w) : w[i].kind = "PageUnreadable"}

\* C13: a page that fails to decode does not abort the extraction: there is
\* one advisory, naming that page, the text of the other pages processed is
\* concatenated in page order, and the extraction returns that text whenever
\* it is not whitespace-only and not above the character ceiling.
C13_FailedPageIsSkipped ==
    (Returned /\ fin.file.open = "ok" /\ FailingPage(fin.file) # {})
    => LET f == fin.file
           rest == JoinFirst(f.pages, Min(Len(f.pages), max_pages))
           w == fout[1].warnings
       IN  /\ Cardinality(PageWarnings(w)) = 1
           /\ \A i \in PageWarnings(w) : w[i].n \in FailingPage(f)
           /\ fout[1].total_pages = Len(f.pages)
           /\ (~(\A j \in 1..Len(rest) : rest[j][1] \in Whitespace)
               /\ CharsFirst(f.pages, Min(Len(f.pages), max_pages)) <= CharCeiling)
              => fout[1] = [text |-> Some(rest), error |-> None,
                            total_pages |-> Len(f.pages), warnings |-> w]
           /\ fout[1].text # None => fout[1].text[1] = rest

\* the second of three pages failed and the first and third were returned
C13_Witness ==
    /\ Returned
    /\ fin.file = Doc("letters", 3, 2)
    /\ fout[1].text = Some(<< <<"a", 3>>, <<"\n", 1>>, <<"c", 3>>, <<"\n", 1>> >>)
    /\ fout[1].warnings = << [kind |-> "PageUnreadable", n |-> 2] >>

C14_CompleteOnlyWithBothResults ==
    session.processing_complete
    => session.summary # None /\ session.key_points # None

====
